---- MODULE Spec2Model ----
(***************************************************************************)
(* PrivyChain: the upload -> ledger-record -> reward-settlement ->         *)
(* reconciliation pipeline.                                                *)
(*                                                                         *)
(* Three parts are modelled, each from its source:                         *)
(*   - the ledger program (the Solidity contract PrivyChain),               *)
(*   - the Go backend (internal/handlers, internal/services) with its      *)
(*     persistence layer (tables file_records and access_grants),          *)
(*   - the JavaScript backend with automatic reward claiming.              *)
(***************************************************************************)
EXTENDS Integers, Sequences, FiniteSets, TLC

(***************************************************************************)
(* Bounds of the model.                                                    *)
(***************************************************************************)
\* longest identifier list handed to batchClaimRewards
MaxBatch == 2
\* most native currency the contract ever holds (in reward units)
MaxFunds == 6
\* most transactions the Go backend sends to the ledger
MaxTx == 3
\* most rows of the access_grants table
MaxGrants == 2
\* most ClaimReward requests in progress at once
MaxClaims == 2
\* most rows of the file_records table
MaxRecords == 1
\* most calls of getUserEncryptionKey
MaxKeyCalls == 3
\* most bytes of an encrypted payload
MaxPayload == 3
\* bits of an unsigned word of the ledger program (256 in the EVM)
WordBits == 12
\* the last instant of the clock
MaxTime == 2
\* longest duration of a grant, in clock units
MaxDuration == 1

(***************************************************************************)
(* Value domains.                                                          *)
(***************************************************************************)
\* content identifiers
CIDs == {"c1", "c2"}
\* the backend's own wallet: every transaction the backend sends is signed
\* with the configured private key (blockchain_service.go:42, :96)
ServerWallet == "server"
\* wallet addresses; "alice" and "bob" are users
Addrs == {ServerWallet, "alice", "bob"}
\* users of the HTTP API
Users == {"alice", "bob"}
\* address(0)
NoAddr == "0x0"
\* the bytes of the uploaded files
FileBytes == [c \in CIDs |-> IF c = "c1" THEN <<0, 1>> ELSE <<1, 0, 1>>]
\* no Retrieve response yet
NoRetrieveResponse == [user |-> "0x0", cid |-> "none", code |-> 0, file |-> <<>>]
\* the keys GenerateKey can return
Keys == {"k1", "k2"}
\* no row in encryption_keys
NoKey == "none"
\* file sizes in bytes, below and above one KB
FileSizes == {512, 2048}
\* reward configurations the owner sets with updateRewardConfig
RewardConfigs == { [base |-> 2, mult |-> 1, bonus |-> 1], [base |-> 0, mult |-> 0, bonus |-> 0] }
\* the amounts sent to the contract (receive())
Deposits == {3}
\* grant durations a request can carry; 0 asks for a permanent grant
Durations == 0..MaxDuration
\* an expiry no clock value reaches: type(uint256).max on the ledger, the
\* end of 2099 in the Go backend
Forever == MaxTime + MaxDuration + 1
\* the file whose storage upload yields each identifier (the identifier is
\* derived from the content): its size in bytes and whether it is encrypted
UploadedFile == [c \in CIDs |-> IF c = "c1" THEN [size |-> 512, encrypted |-> FALSE] ELSE [size |-> 2048, encrypted |-> TRUE]]

(***************************************************************************)
(* State.                                                                  *)
(***************************************************************************)
VARIABLES
  \* ---- ledger program (contract storage and event log) ----
  fileRecords,        \* mapping(bytes32 => FileRecord)
  contractBalance,    \* address(this).balance
  paused,             \* Pausable._paused
  rewardConfig,       \* baseRewardAmount, sizeMultiplier, encryptionBonus
  rewardClaimedLog,   \* per identifier: number of RewardClaimed events emitted
  \* ---- Go backend: persistence layer ----
  file_records,       \* table file_records, keyed by the unique cid
  access_grants,      \* table access_grants: a sequence of rows (id = index)
  \* ---- Go backend: requests and tasks in flight ----
  uploadTask,         \* per identifier: the upload's detached goroutine
  claimReq,           \* the ClaimReward requests between their check and their ledger call
  claimResp,          \* the response of the last ClaimReward request that returned
  txLog,              \* transactions the Go backend sent, with their receipts
  \* ---- JavaScript backend ----
  js_records,         \* table file_records of the JavaScript backend
  jsUpload,           \* per identifier: the POST /upload in progress
  jsClaim,            \* the claimUploadReward calls in progress (automatic or manual)
  jsTxLog,            \* transactions the JavaScript backend sent, with their receipts
  jsResp,             \* the response of the last request that returned
  \* ---- access control ----
  accessGrants,       \* ledger: mapping(bytes32 => mapping(address => AccessGrant))
  now,                \* the clock: time.Now() and block.timestamp
  grantTask,          \* Go backend: the GrantAccess goroutines that have not returned
  grantResp,          \* Go backend: the response of the last GrantAccess or RevokeAccess
  uploadResp,         \* Go backend: the response of the last Upload
  webhookResp,        \* Go backend: the response of the last event delivery
  lastAuth,           \* whether the last request carried the signature of its claimed address over its message
  probe,              \* the arguments and the result of a function applied on its own
  \* ---- Go backend: encryption keys ----
  encryption_keys,    \* table encryption_keys, keyed by user_address (primary key)
  keyCalls,           \* the calls of getUserEncryptionKey, in progress and returned
  storage,            \* the storage network: the bytes stored under each identifier
  retrieveResp        \* the last response of Retrieve

keyVars == <<encryption_keys, keyCalls, storage, retrieveResp>>

\* no function applied on its own
NoProbe == [fn |-> "none"]

ledgerVars == <<fileRecords, contractBalance, paused, rewardConfig, rewardClaimedLog>>
goVars == <<file_records, access_grants, uploadTask, claimReq, claimResp, txLog>>
jsVars == <<js_records, jsUpload, jsClaim, jsTxLog, jsResp>>
accessVars == <<accessGrants, now, grantTask, grantResp>>
vars == <<fileRecords, contractBalance, paused, rewardConfig, rewardClaimedLog, file_records, access_grants, uploadTask, claimReq, claimResp, txLog, js_records, jsUpload, jsClaim, jsTxLog, jsResp, accessGrants, now, grantTask, grantResp, uploadResp, webhookResp, lastAuth, probe, encryption_keys, keyCalls, storage, retrieveResp>>

(***************************************************************************)
(* The ledger program.  Rewards are paid in the native currency            *)
(* (useTokenRewards is false when the contract is constructed with         *)
(* address(0)); amounts are counted in small reward units instead of wei.  *)
(***************************************************************************)
\* the zero value of a FileRecord slot that was never written
EmptyFileRecord == [uploader |-> NoAddr, fileSize |-> 0, isEncrypted |-> FALSE, rewardClaimed |-> FALSE]

\* a faulty variant of calculateReward: the encryption bonus is never added
calculateRewardNoBonus(cfg, fileSize, isEncrypted) ==
  cfg.base + (fileSize \div 1024) * cfg.mult

\* calculateReward(fileSize, isEncrypted), with the current configuration
calculateReward(cfg, fileSize, isEncrypted) ==
  LET sizeReward == (fileSize \div 1024) * cfg.mult
      totalReward == cfg.base + sizeReward
  IN  IF isEncrypted THEN totalReward + cfg.bonus ELSE totalReward

\* modifier fileExists
fileExists(recs, cid) == recs[cid].uploader # NoAddr

\* the requires of recordUpload (requireAuthorization is false by default)
recordUploadRequires(recs, isPaused, cid, fileSize) ==
  /\ ~isPaused
  /\ recs[cid].uploader = NoAddr
  /\ fileSize > 0

\* a faulty variant of claimRequires: the claimed flag is not checked
claimRequiresNoFlag(rec, sender) ==
  rec.uploader = sender

\* the two requires at the top of claimUploadReward
claimRequires(rec, sender) ==
  /\ rec.uploader = sender
  /\ ~rec.rewardClaimed

\* a faulty variant of claimUploadRewardSucceeds: the writes made before the
\* balance check stay when the check fails
claimUploadRewardSucceedsNoRollback(recs, isPaused, balance, cfg, sender, cid) ==
  /\ recs[cid].uploader # NoAddr
  /\ ~isPaused
  /\ recs[cid].uploader = sender
  /\ ~recs[cid].rewardClaimed

\* whether claimUploadReward(cid) sent by sender runs to the end (no revert)
claimUploadRewardSucceeds(recs, isPaused, balance, cfg, sender, cid) ==
  /\ fileExists(recs, cid)
  /\ ~isPaused
  /\ claimRequires(recs[cid], sender)
  /\ balance >= calculateReward(cfg, recs[cid].fileSize, recs[cid].isEncrypted)

\* a faulty variant of batchSelects: the claimed flag is not checked
batchSelectsNoFlag(rec, sender) ==
  rec.uploader = sender

\* the condition of the if inside the loop of batchClaimRewards
batchSelects(rec, sender) ==
  /\ rec.uploader = sender
  /\ ~rec.rewardClaimed

\* the loop of batchClaimRewards from index i on: the records, the total and
\* the RewardClaimed events after the loop
RECURSIVE batchLoop(_, _, _, _, _, _, _)
batchLoop(recs, log, total, cfg, sender, cids, i) ==
  IF i > Len(cids) THEN [recs |-> recs, log |-> log, total |-> total]
  ELSE LET cid == cids[i]
           record == recs[cid]
       IN  IF batchSelects(record, sender)
           THEN batchLoop([recs EXCEPT ![cid].rewardClaimed = TRUE],
                          [log EXCEPT ![cid] = @ + 1],
                          total + calculateReward(cfg, record.fileSize, record.isEncrypted),
                          cfg, sender, cids, i + 1)
           ELSE batchLoop(recs, log, total, cfg, sender, cids, i + 1)

\* the reason claimUploadReward reverts with, "" when it runs to the end
claimUploadRewardRevert(recs, isPaused, balance, cfg, sender, cid) ==
  IF ~fileExists(recs, cid) THEN "File does not exist"
  ELSE IF isPaused THEN "Pausable: paused"
  ELSE IF recs[cid].uploader # sender THEN "Not the uploader"
  ELSE IF recs[cid].rewardClaimed THEN "Reward already claimed"
  ELSE IF ~(balance >= calculateReward(cfg, recs[cid].fileSize, recs[cid].isEncrypted))
       THEN "Insufficient contract balance"
  ELSE ""

\* the reason batchClaimRewards reverts with, "" when it runs to the end
batchClaimRewardsRevert(recs, isPaused, balance, cfg, sender, cids) ==
  LET r == batchLoop(recs, [c \in CIDs |-> 0], 0, cfg, sender, cids, 1)
  IN  IF isPaused THEN "Pausable: paused"
      ELSE IF ~(r.total > 0) THEN "No rewards to claim"
      ELSE IF ~(balance >= r.total) THEN "Insufficient contract balance"
      ELSE ""

\* batchClaimRewards: the storage after the call; a call that reverts leaves it
\* as it was
batchClaimRewardsEffect(sender, cids) ==
  LET r == batchLoop(fileRecords, rewardClaimedLog, 0, rewardConfig, sender, cids, 1)
  IN  IF batchClaimRewardsRevert(fileRecords, paused, contractBalance, rewardConfig, sender, cids) = ""
      THEN /\ fileRecords' = r.recs
           /\ rewardClaimedLog' = r.log
           /\ contractBalance' = contractBalance - r.total
           /\ UNCHANGED <<paused, rewardConfig>>
      ELSE UNCHANGED ledgerVars

\* recordUpload: effect of a call that does not revert
recordUploadEffect(sender, cid, fileSize, isEncrypted) ==
  /\ fileRecords' = [fileRecords EXCEPT ![cid] = [uploader |-> sender, fileSize |-> fileSize, isEncrypted |-> isEncrypted, rewardClaimed |-> FALSE]]
  /\ UNCHANGED <<contractBalance, paused, rewardConfig, rewardClaimedLog>>

\* claimUploadReward: effect of a call that does not revert
claimUploadRewardEffect(sender, cid) ==
  /\ fileRecords' = [fileRecords EXCEPT ![cid].rewardClaimed = TRUE]
  /\ contractBalance' = contractBalance - calculateReward(rewardConfig, fileRecords[cid].fileSize, fileRecords[cid].isEncrypted)
  /\ rewardClaimedLog' = [rewardClaimedLog EXCEPT ![cid] = @ + 1]
  /\ UNCHANGED <<paused, rewardConfig>>

\* sequences over S of length at most n
SeqsUpTo(S, n) == UNION { [1..k -> S] : k \in 0..n }

\* recordUpload called directly by any account
RecordUpload(sender, cid, fileSize, isEncrypted) ==
  /\ recordUploadRequires(fileRecords, paused, cid, fileSize)
  /\ recordUploadEffect(sender, cid, fileSize, isEncrypted)
  /\ UNCHANGED <<goVars, jsVars, accessVars, uploadResp, webhookResp, lastAuth, probe, keyVars>>

\* claimUploadReward called directly by any account; a call that reverts
\* leaves the storage as it was
ClaimUploadReward(sender, cid) ==
  /\ IF claimUploadRewardSucceeds(fileRecords, paused, contractBalance, rewardConfig, sender, cid)
     THEN claimUploadRewardEffect(sender, cid)
     ELSE UNCHANGED ledgerVars
  /\ UNCHANGED <<goVars, jsVars, accessVars, uploadResp, webhookResp, lastAuth, probe, keyVars>>

\* batchClaimRewards called directly by any account; a call that reverts
\* (nothing to claim, insufficient balance, paused) leaves the storage as it was
BatchClaimRewards(sender, cids) ==
  /\ batchClaimRewardsEffect(sender, cids)
  /\ UNCHANGED <<goVars, jsVars, accessVars, uploadResp, webhookResp, lastAuth, probe, keyVars>>

\* claimUploadReward sent by an account that reads the outcome of its
\* transaction
SendClaimUploadReward(sender, cid) ==
  /\ IF claimUploadRewardSucceeds(fileRecords, paused, contractBalance, rewardConfig, sender, cid)
     THEN claimUploadRewardEffect(sender, cid)
     ELSE UNCHANGED ledgerVars
  /\ probe' = [fn |-> "claimUploadReward", sender |-> sender, cids |-> <<cid>>,
               revert |-> claimUploadRewardRevert(fileRecords, paused, contractBalance, rewardConfig, sender, cid)]
  /\ UNCHANGED <<goVars, jsVars, accessVars, uploadResp, webhookResp, lastAuth, keyVars>>

\* batchClaimRewards sent by an account that reads the outcome of its
\* transaction: the revert reason, if any, and the identifiers the loop selected
SendBatchClaimRewards(sender, cids) ==
  /\ batchClaimRewardsEffect(sender, cids)
  /\ probe' = [fn |-> "batchClaimRewards", sender |-> sender, cids |-> cids,
               revert |-> batchClaimRewardsRevert(fileRecords, paused, contractBalance, rewardConfig, sender, cids),
               selected |-> {cids[i] : i \in {j \in 1..Len(cids) : batchSelects(fileRecords[cids[j]], sender)}}]
  /\ UNCHANGED <<goVars, jsVars, accessVars, uploadResp, webhookResp, lastAuth, keyVars>>

\* receive(): anyone funds the contract
Receive ==
  /\ \E amount \in Deposits :
        /\ contractBalance + amount <= MaxFunds
        /\ contractBalance' = contractBalance + amount
  /\ UNCHANGED <<fileRecords, paused, rewardConfig, rewardClaimedLog, goVars, jsVars, accessVars, uploadResp, webhookResp, lastAuth, probe, keyVars>>

\* withdraw(): the owner takes the whole balance
Withdraw ==
  /\ contractBalance > 0
  /\ contractBalance' = 0
  /\ UNCHANGED <<fileRecords, paused, rewardConfig, rewardClaimedLog, goVars, jsVars, accessVars, uploadResp, webhookResp, lastAuth, probe, keyVars>>

\* pause() and unpause()
Pause ==
  /\ ~paused
  /\ paused' = TRUE
  /\ UNCHANGED <<fileRecords, contractBalance, rewardConfig, rewardClaimedLog, goVars, jsVars, accessVars, uploadResp, webhookResp, lastAuth, probe, keyVars>>

Unpause ==
  /\ paused
  /\ paused' = FALSE
  /\ UNCHANGED <<fileRecords, contractBalance, rewardConfig, rewardClaimedLog, goVars, jsVars, accessVars, uploadResp, webhookResp, lastAuth, probe, keyVars>>

\* updateRewardConfig(newBaseReward, newSizeMultiplier, newEncryptionBonus)
UpdateRewardConfig(cfg) ==
  /\ cfg # rewardConfig
  /\ rewardConfig' = cfg
  /\ UNCHANGED <<fileRecords, contractBalance, paused, rewardClaimedLog, goVars, jsVars, accessVars, uploadResp, webhookResp, lastAuth, probe, keyVars>>

\* the zero value of an AccessGrant slot that was never written
EmptyAccessGrant == [granter |-> NoAddr, expiresAt |-> 0, isActive |-> FALSE]

\* the modifiers and requires of grantAccess
grantAccessRequires(recs, isPaused, sender, cid, grantee) ==
  /\ fileExists(recs, cid)
  /\ recs[cid].uploader = sender
  /\ ~isPaused
  /\ grantee # NoAddr
  /\ grantee # sender

\* grantAccess: effect of a call that does not revert, at block.timestamp t
grantAccessEffect(sender, cid, grantee, duration, t) ==
  /\ accessGrants' = [accessGrants EXCEPT ![cid][grantee] =
        [granter |-> sender, expiresAt |-> IF duration = 0 THEN Forever ELSE t + duration, isActive |-> TRUE]]
  /\ UNCHANGED <<fileRecords, contractBalance, paused, rewardConfig, rewardClaimedLog>>

\* hasAccess(cid, viewer) at block.timestamp t
hasAccess(recs, grants, t, cid, viewer) ==
  \/ recs[cid].uploader = viewer
  \/ /\ grants[cid][viewer].isActive
     /\ t <= grants[cid][viewer].expiresAt

\* time passes
Tick ==
  /\ now < MaxTime
  /\ now' = now + 1
  /\ UNCHANGED <<ledgerVars, goVars, jsVars, accessGrants, grantTask, grantResp, uploadResp, webhookResp, lastAuth, probe, keyVars>>

(***************************************************************************)
(* The Go backend: persistence layer.                                      *)
(*                                                                         *)
(* A row of file_records is keyed by its cid (uniqueIndex); tx_hash 0 is   *)
(* the empty string a row has until a hash is stored.  A transaction hash  *)
(* is the position of the transaction in txLog.                            *)
(***************************************************************************)
\* the empty tx_hash
NoTxHash == 0

\* no row for this cid
NoRecord == [exists |-> FALSE, uploader_addr |-> NoAddr, status |-> "none", tx_hash |-> NoTxHash]

\* transaction hashes an event can carry: the empty string or a hash
TxHashes == 0..MaxTx

\* expiry timestamps an AccessGranted event can carry
ExpiryTimes == {2, 10}

\* the two tables as one value
db == [files |-> file_records, grants |-> access_grants]

\* handleFileUploaded: status and tx_hash of the row with this cid
handleFileUploaded(d, cid, txHash) ==
  [d EXCEPT !.files = [c \in CIDs |->
      IF d.files[c].exists /\ c = cid
      THEN [d.files[c] EXCEPT !.status = "confirmed", !.tx_hash = txHash]
      ELSE d.files[c]]]

\* handleRewardClaimed: status of the row with this cid and uploader
handleRewardClaimed(d, cid, uploader) ==
  [d EXCEPT !.files = [c \in CIDs |->
      IF d.files[c].exists /\ c = cid /\ d.files[c].uploader_addr = uploader
      THEN [d.files[c] EXCEPT !.status = "rewarded"]
      ELSE d.files[c]]]

\* handleAccessGranted: db.Create of a new access_grants row
handleAccessGranted(d, cid, granter, grantee, expiresAt) ==
  [d EXCEPT !.grants = Append(d.grants,
      [cid |-> cid, granter_addr |-> granter, grantee_addr |-> grantee,
       expires_at |-> expiresAt, is_active |-> TRUE, tx_hash |-> NoTxHash])]

\* handleAccessRevoked: is_active of every row with this cid and grantee
handleAccessRevoked(d, cid, grantee) ==
  [d EXCEPT !.grants = [i \in 1..Len(d.grants) |->
      IF d.grants[i].cid = cid /\ d.grants[i].grantee_addr = grantee
      THEN [d.grants[i] EXCEPT !.is_active = FALSE]
      ELSE d.grants[i]]]

\* handleTransactionConfirmed: status of every row with this tx_hash
handleTransactionConfirmed(d, txHash) ==
  [d EXCEPT !.files = [c \in CIDs |->
      IF d.files[c].exists /\ d.files[c].tx_hash = txHash
      THEN [d.files[c] EXCEPT !.status = "confirmed"]
      ELSE d.files[c]]]

\* handleTransactionFailed: status of every row with this tx_hash
handleTransactionFailed(d, txHash) ==
  [d EXCEPT !.files = [c \in CIDs |->
      IF d.files[c].exists /\ d.files[c].tx_hash = txHash
      THEN [d.files[c] EXCEPT !.status = "failed"]
      ELSE d.files[c]]]

\* the events HandleWebhook dispatches, with the fields their handlers read
FileEvents ==
  [type : {"FileUploaded"}, cid : CIDs, tx_hash : TxHashes]
  \cup [type : {"RewardClaimed"}, cid : CIDs, uploader : Users]
  \cup [type : {"TransactionConfirmed", "TransactionFailed"}, tx_hash : TxHashes]

AccessEvents ==
  [type : {"AccessGranted"}, cid : CIDs, granter : Users, grantee : Users, expires_at : ExpiryTimes]
  \cup [type : {"AccessRevoked"}, cid : CIDs, grantee : Users]

WebhookEvents == FileEvents \cup AccessEvents

\* the switch of HandleWebhook
dispatch(d, event) ==
  CASE event.type = "FileUploaded" -> handleFileUploaded(d, event.cid, event.tx_hash)
    [] event.type = "RewardClaimed" -> handleRewardClaimed(d, event.cid, event.uploader)
    [] event.type = "AccessGranted" -> handleAccessGranted(d, event.cid, event.granter, event.grantee, event.expires_at)
    [] event.type = "AccessRevoked" -> handleAccessRevoked(d, event.cid, event.grantee)
    [] event.type = "TransactionConfirmed" -> handleTransactionConfirmed(d, event.tx_hash)
    [] event.type = "TransactionFailed" -> handleTransactionFailed(d, event.tx_hash)

\* the key NewWebhookHandler configures
secretKey == "your-webhook-secret-key"

\* no "rawBody" value in the request context
NoBody == [type |-> "none"]

\* HMAC-SHA256 of a body under a key, in hex
Mac(key, body) == [key |-> key, body |-> body]

\* an empty X-Signature-256 header
NoTag == Mac("", NoBody)

\* the X-Signature-256 headers a delivery of an event can carry: none, the
\* tag of the event under the configured key, the tag under another key, and
\* the tag of another body under the configured key
Tags(event) ==
  {NoTag, Mac(secretKey, event), Mac("other-key", event), Mac(secretKey, NoBody)}

\* no webhook response yet
NoWebhookResponse == [endpoint |-> "none", code |-> 0]

\* a faulty variant of verifySignature: any non-empty header is accepted
verifySignatureAnyTag(key, signature, rawBody) ==
  /\ key # ""
  /\ signature # NoTag
  /\ rawBody # NoBody

\* verifySignature: the header must equal the tag of the "rawBody" value of
\* the request context under the configured key
verifySignature(key, signature, rawBody) ==
  /\ key # ""
  /\ signature # NoTag
  /\ rawBody # NoBody
  /\ signature = Mac(key, rawBody)

\* HandleWebhook for the delivery of an event with an X-Signature-256 header
\* and the "rawBody" value of its request context: 401 unless the header
\* verifies, else the event is dispatched and the answer is 200
HandleWebhook(event, signature, rawBody) ==
  /\ IF ~verifySignature(secretKey, signature, rawBody)
     THEN /\ webhookResp' = [endpoint |-> "webhook", code |-> 401]
          /\ UNCHANGED <<file_records, access_grants>>
     ELSE /\ event.type = "AccessGranted" => Len(access_grants) < MaxGrants
          /\ file_records' = dispatch(db, event).files
          /\ access_grants' = dispatch(db, event).grants
          /\ webhookResp' = [endpoint |-> "webhook", code |-> 200]
  /\ UNCHANGED <<uploadTask, claimReq, claimResp, txLog, ledgerVars, jsVars, accessVars, uploadResp, lastAuth, probe, keyVars>>

\* the events HandleBlockchainEvent switches on
BlockchainEvents ==
  [type : {"FileUploaded", "RewardClaimed"}, cid : CIDs]
  \cup [type : {"AccessGranted"}, cid : CIDs, grantee : Users]

\* HandleBlockchainEvent for the delivery of an event: the X-Signature-256
\* header is not read; processFileUploadedEvent, processRewardClaimedEvent
\* or processAccessGrantedEvent runs, which writes a log line, and the
\* answer is 200
HandleBlockchainEvent(event, signature) ==
  /\ webhookResp' = [endpoint |-> "webhook/blockchain", code |-> 200]
  /\ UNCHANGED <<goVars, ledgerVars, jsVars, accessVars, uploadResp, lastAuth, probe, keyVars>>

(***************************************************************************)
(* The Go backend: the signature every request carries.                    *)
(***************************************************************************)
\* the bytes of the file whose storage upload yields each identifier
FileContent == [c \in CIDs |-> IF c = "c1" THEN "bytes1" ELSE "bytes2"]

\* the message each handler passes to VerifySignature, as the sequence of
\* the strings it concatenates
uploadMessage(cid) == <<FileContent[cid]>>
retrieveMessage(cid) == <<cid>>
claimMessage(cid) == <<cid>>
grantMessage(cid, grantee) == <<cid, grantee>>
revokeMessage(cid, grantee) == <<cid, grantee, "revoke">>

\* the messages a user may have signed
Messages ==
  {uploadMessage(c) : c \in CIDs} \cup {claimMessage(c) : c \in CIDs}
  \cup {grantMessage(c, g) : c \in CIDs, g \in Users}
  \cup {revokeMessage(c, g) : c \in CIDs, g \in Users}

\* a signature field that is not 65 bytes of hex
NoSignature == [signer |-> NoAddr, message |-> <<>>]

\* the signature of a message made with the key of an address
Sign(address, message) == [signer |-> address, message |-> message]

\* the signature fields a request can carry
Signatures == {NoSignature} \cup {Sign(a, m) : a \in Users, m \in Messages}

\* the signature fields offered with a request of a user whose handler
\* verifies message m: none, the signature of m by each user, and the
\* user's own signatures made to retrieve the identifier and to grant
\* access to it
Offered(user, cid, m) ==
  {NoSignature} \cup {Sign(a, m) : a \in Users}
  \cup {Sign(user, retrieveMessage(cid))}
  \cup {Sign(user, grantMessage(cid, g)) : g \in Users}

\* crypto.SigToPub and PubkeyToAddress on the hash of a message: the signer
\* when this is the message that was signed, else an address nobody holds
recoveredAddr(signature, message) ==
  IF signature.message = message THEN signature.signer ELSE NoAddr

\* a faulty variant of VerifySignature: only the form of the signature is checked
VerifySignatureFormatOnly(address, signature, message) == signature # NoSignature

\* whether a signature is the one the address made over the message
authentic(address, signature, message) ==
  IF signature = Sign(address, message) THEN "authentic" ELSE "forged"

\* AuthService.VerifySignature
VerifySignature(address, signature, message) ==
  /\ signature # NoSignature
  /\ recoveredAddr(signature, message) = address

(***************************************************************************)
(* The Go backend: EncryptionService.getUserEncryptionKey, called by       *)
(* EncryptFile and DecryptFile for the address of the request.  The lookup *)
(* and the insert are two statements: other calls run between them.        *)
(***************************************************************************)
\* whether db.Create of a key row for this user fails (user_address is the
\* primary key)
keyInsertFails(table, user) == table[user] # NoKey

\* getUserEncryptionKey up to its lookup: the stored key is returned, or a
\* new key is generated
KeyLookup(user, key) ==
  /\ Len(keyCalls) < MaxKeyCalls
  /\ keyCalls' = Append(keyCalls,
        IF encryption_keys[user] # NoKey
        THEN [user |-> user, phase |-> "returned", key |-> encryption_keys[user]]
        ELSE [user |-> user, phase |-> "generated", key |-> key])
  /\ UNCHANGED <<encryption_keys, storage, retrieveResp, ledgerVars, goVars, jsVars, accessVars, uploadResp, webhookResp, lastAuth, probe>>

\* getUserEncryptionKey from its insert on: the generated key is stored and
\* returned, or the insert fails and the call returns the error
KeyStore(i) ==
  /\ i \in 1..Len(keyCalls)
  /\ keyCalls[i].phase = "generated"
  /\ LET call == keyCalls[i]
     IN  IF keyInsertFails(encryption_keys, call.user)
         THEN /\ keyCalls' = [keyCalls EXCEPT ![i].phase = "failed"]
              /\ UNCHANGED encryption_keys
         ELSE /\ encryption_keys' = [encryption_keys EXCEPT ![call.user] = call.key]
              /\ keyCalls' = [keyCalls EXCEPT ![i].phase = "returned"]
  /\ UNCHANGED <<storage, retrieveResp, ledgerVars, goVars, jsVars, accessVars, uploadResp, webhookResp, lastAuth, probe>>

(***************************************************************************)
(* The Go backend: Upload and its detached ledger-record goroutine.        *)
(***************************************************************************)
\* no Upload response yet
NoUploadResponse == [code |-> 0, status |-> "none", error |-> "none"]

\* a faulty variant of uploadInsertFails: no uniqueness of cid
uploadInsertNeverFails(files, cid) == FALSE

\* whether db.Create of a record with this cid fails (cid is a uniqueIndex)
uploadInsertFails(files, cid) == files[cid].exists

\* Upload of the file with identifier cid: 401 unless the signature is the
\* user's over the file.  The storage upload returns cid, or fails and the
\* request ends with 500.  Then the Pending row is inserted; when the insert
\* fails the request ends with 500; else the goroutine is launched and the
\* response carries status pending
uploadRequest(user, signature, cid, stored) ==
  /\ lastAuth' = authentic(user, signature, uploadMessage(cid))
  /\ IF ~VerifySignature(user, signature, uploadMessage(cid))
     THEN /\ uploadResp' = [code |-> 401, status |-> "none", error |-> "Invalid signature"]
          /\ UNCHANGED <<file_records, uploadTask>>
     ELSE IF ~stored \/ uploadInsertFails(file_records, cid)
     THEN /\ uploadResp' = [code |-> 500, status |-> "none",
                            error |-> IF stored THEN "Database error" ELSE "Storage upload failed"]
          /\ UNCHANGED <<file_records, uploadTask>>
     ELSE /\ Cardinality({c \in CIDs : file_records[c].exists} \cup {cid}) <= MaxRecords
          /\ file_records' = [file_records EXCEPT ![cid] =
                [exists |-> TRUE, uploader_addr |-> user, status |-> "pending", tx_hash |-> NoTxHash]]
          /\ uploadTask' = [uploadTask EXCEPT ![cid] = "running"]
          /\ uploadResp' = [code |-> 200, status |-> "pending", error |-> "none"]
  /\ UNCHANGED <<access_grants, claimReq, claimResp, txLog, ledgerVars, jsVars, accessVars, webhookResp, probe>>

\* Upload seen from the tables and the ledger: the keys and the stored bytes
\* are left out
Upload(user, signature, cid, stored) ==
  /\ uploadRequest(user, signature, cid, stored)
  /\ UNCHANGED keyVars

\* a faulty variant of taskUpdate: an error of RecordUpload is not stored
taskUpdateDropsError(row, sent, txHash) ==
  IF sent THEN [row EXCEPT !.tx_hash = txHash, !.status = "confirmed"]
  ELSE row

\* the row after the goroutine's db update: failed when RecordUpload
\* returned an error, else confirmed with the transaction hash
taskUpdate(row, sent, txHash) ==
  IF sent THEN [row EXCEPT !.tx_hash = txHash, !.status = "confirmed"]
  ELSE [row EXCEPT !.status = "failed"]

\* the goroutine of Upload: RecordUpload returns (SendTransaction accepted
\* the transaction, or an error), then the row is updated
UploadTaskDone(cid, sent) ==
  /\ uploadTask[cid] = "running"
  /\ sent => Len(txLog) < MaxTx
  /\ txLog' = IF sent THEN Append(txLog, [kind |-> "recordUpload", cid |-> cid, status |-> "pending"]) ELSE txLog
  /\ file_records' = [file_records EXCEPT ![cid] = taskUpdate(@, sent, Len(txLog) + 1)]
  /\ uploadTask' = [uploadTask EXCEPT ![cid] = "done"]
  /\ UNCHANGED <<access_grants, claimReq, claimResp, ledgerVars, jsVars, accessVars, uploadResp, webhookResp, lastAuth, probe, keyVars>>

(***************************************************************************)
(* The Go backend: ClaimReward.                                            *)
(***************************************************************************)
\* no response yet
NoResponse == [code |-> 0, tx_hash |-> NoTxHash]

\* a faulty variant of claimCheck: the status of the row is not checked
claimCheckNoStatus(row, user) ==
  IF ~(row.exists /\ row.uploader_addr = user) THEN 404
  ELSE 0

\* the checks of ClaimReward after the signature: 0 when the request goes on
\* to the ledger, else the HTTP status of the rejection
claimCheck(row, user) ==
  IF ~(row.exists /\ row.uploader_addr = user) THEN 404
  ELSE IF row.status = "rewarded" THEN 409
  ELSE IF row.status # "confirmed" THEN 400
  ELSE 0

\* ClaimReward up to its ledger call: 401 unless the signature is the user's
\* over the cid, then the checks of the record
ClaimBegin(user, signature, cid) ==
  /\ lastAuth' = authentic(user, signature, claimMessage(cid))
  /\ LET code == IF ~VerifySignature(user, signature, claimMessage(cid)) THEN 401
                 ELSE claimCheck(file_records[cid], user)
     IN  IF code = 0
         THEN /\ Len(claimReq) < MaxClaims
              /\ claimReq' = Append(claimReq, [cid |-> cid, user |-> user, status |-> file_records[cid].status])
              /\ UNCHANGED claimResp
         ELSE /\ claimResp' = [code |-> code, tx_hash |-> NoTxHash]
              /\ UNCHANGED claimReq
  /\ UNCHANGED <<file_records, access_grants, uploadTask, txLog, ledgerVars, jsVars, accessVars, uploadResp, webhookResp, probe, keyVars>>

\* a sequence without its i-th element
RemoveAt(seq, i) == [j \in 1..(Len(seq) - 1) |-> IF j < i THEN seq[j] ELSE seq[j + 1]]

\* the row after the db update of ClaimReward (status and updated_at)
claimUpdate(row, txHash) ==
  [row EXCEPT !.status = "rewarded"]

\* ClaimReward from its ledger call on: blockchainService.ClaimReward returns
\* the hash of the transaction it sent, or an error
ClaimFinish(i, sent) ==
  /\ i \in 1..Len(claimReq)
  /\ sent => Len(txLog) < MaxTx
  /\ LET req == claimReq[i]
         txHash == Len(txLog) + 1
     IN  IF sent
         THEN /\ txLog' = Append(txLog, [kind |-> "claimUploadReward", cid |-> req.cid, status |-> "pending"])
              /\ file_records' = [file_records EXCEPT ![req.cid] = claimUpdate(@, txHash)]
              /\ claimResp' = [code |-> 200, tx_hash |-> txHash]
         ELSE /\ claimResp' = [code |-> 500, tx_hash |-> NoTxHash]
              /\ UNCHANGED <<txLog, file_records>>
  /\ claimReq' = RemoveAt(claimReq, i)
  /\ UNCHANGED <<access_grants, uploadTask, ledgerVars, jsVars, accessVars, uploadResp, webhookResp, lastAuth, probe, keyVars>>

(***************************************************************************)
(* The Go backend: access control.                                         *)
(***************************************************************************)
\* a faulty variant of hasFileAccess: the uploader's row is not looked up
hasFileAccessGrantsOnly(d, t, cid, userAddr) ==
  \E i \in 1..Len(d.grants) :
     /\ d.grants[i].cid = cid
     /\ d.grants[i].grantee_addr = userAddr
     /\ d.grants[i].is_active
     /\ d.grants[i].expires_at > t

\* hasFileAccess(cid, userAddr) at time t: the uploader's row, or an active
\* grant row of this grantee whose expires_at is later than t
hasFileAccess(d, t, cid, userAddr) ==
  \/ /\ d.files[cid].exists
     /\ d.files[cid].uploader_addr = userAddr
  \/ \E i \in 1..Len(d.grants) :
        /\ d.grants[i].cid = cid
        /\ d.grants[i].grantee_addr = userAddr
        /\ d.grants[i].is_active
        /\ d.grants[i].expires_at > t

\* no GrantAccess or RevokeAccess response yet
NoGrantResponse == [op |-> "none", code |-> 0]

\* a faulty variant of grantExpiry: the duration is ignored
grantExpiryForever(t, duration) == Forever

\* expiresAt computed by GrantAccess at time t
grantExpiry(t, duration) == IF duration = 0 THEN Forever ELSE t + duration

\* whether GrantAccess finds the Content Record of this cid and granter
grantAuthorized(files, cid, granter) ==
  /\ files[cid].exists
  /\ files[cid].uploader_addr = granter

\* GrantAccess: 401 unless the signature is the granter's over cid and
\* grantee, 403 unless the granter is the uploader of the record, else the
\* row is created, the goroutine that mirrors the grant onto the ledger is
\* launched and the request succeeds
GrantAccess(granter, signature, cid, grantee, duration) ==
  /\ lastAuth' = authentic(granter, signature, grantMessage(cid, grantee))
  /\ IF ~VerifySignature(granter, signature, grantMessage(cid, grantee))
     THEN /\ grantResp' = [op |-> "grant", code |-> 401]
          /\ UNCHANGED <<access_grants, grantTask>>
     ELSE IF ~grantAuthorized(file_records, cid, granter)
     THEN /\ grantResp' = [op |-> "grant", code |-> 403]
          /\ UNCHANGED <<access_grants, grantTask>>
     ELSE /\ Len(access_grants) < MaxGrants
          /\ access_grants' = Append(access_grants,
                [cid |-> cid, granter_addr |-> granter, grantee_addr |-> grantee,
                 expires_at |-> grantExpiry(now, duration), is_active |-> TRUE, tx_hash |-> NoTxHash])
          /\ grantTask' = Append(grantTask, [id |-> Len(access_grants) + 1, cid |-> cid, grantee |-> grantee, duration |-> duration])
          /\ grantResp' = [op |-> "grant", code |-> 200]
  /\ UNCHANGED <<file_records, uploadTask, claimReq, claimResp, txLog, ledgerVars, jsVars, accessGrants, now, uploadResp, webhookResp, probe, keyVars>>

\* a faulty variant of mirrorUpdate: a failed mirror deactivates the row
mirrorUpdateRollback(rows, id, sent, txHash) ==
  IF sent THEN rows ELSE [rows EXCEPT ![id].is_active = FALSE]

\* the rows after the goroutine of GrantAccess returns: on an error nothing
\* is written; on success the update of tx_hash names a column the
\* access_grants table does not have (models.AccessGrant), so it fails and
\* the rows stay as they were
mirrorUpdate(rows, id, sent, txHash) == rows

\* the goroutine of GrantAccess: GrantAccessOnChain returns (SendTransaction
\* accepted the transaction, or an error)
GrantMirrorDone(i, sent) ==
  /\ i \in 1..Len(grantTask)
  /\ sent => Len(txLog) < MaxTx
  /\ LET task == grantTask[i]
     IN  /\ txLog' = IF sent
                     THEN Append(txLog, [kind |-> "grantAccess", cid |-> task.cid, status |-> "pending",
                                         grantee |-> task.grantee, duration |-> task.duration])
                     ELSE txLog
         /\ access_grants' = mirrorUpdate(access_grants, task.id, sent, Len(txLog) + 1)
  /\ grantTask' = RemoveAt(grantTask, i)
  /\ UNCHANGED <<file_records, uploadTask, claimReq, claimResp, ledgerVars, jsVars, accessGrants, now, grantResp, uploadResp, webhookResp, lastAuth, probe, keyVars>>

\* the rows RevokeAccess updates
revokeMatches(rows, cid, granter, grantee) ==
  {i \in 1..Len(rows) : rows[i].cid = cid /\ rows[i].granter_addr = granter /\ rows[i].grantee_addr = grantee}

\* RevokeAccess: 401 unless the signature is the granter's over cid, grantee
\* and "revoke"; else every row of this cid, granter and grantee is set
\* inactive; 404 when there is none.  No ledger call is made
RevokeAccess(granter, signature, cid, grantee) ==
  /\ lastAuth' = authentic(granter, signature, revokeMessage(cid, grantee))
  /\ IF ~VerifySignature(granter, signature, revokeMessage(cid, grantee))
     THEN /\ grantResp' = [op |-> "revoke", code |-> 401]
          /\ UNCHANGED access_grants
     ELSE LET hit == revokeMatches(access_grants, cid, granter, grantee)
          IN  /\ access_grants' = [i \in 1..Len(access_grants) |->
                     IF i \in hit THEN [access_grants[i] EXCEPT !.is_active = FALSE] ELSE access_grants[i]]
              /\ grantResp' = [op |-> "revoke", code |-> IF hit = {} THEN 404 ELSE 200]
  /\ UNCHANGED <<file_records, uploadTask, claimReq, claimResp, txLog, ledgerVars, jsVars, accessGrants, now, grantTask, uploadResp, webhookResp, probe, keyVars>>

(***************************************************************************)
(* The ledger executes a transaction the Go backend sent.  The backend     *)
(* returned when SendTransaction accepted the transaction; its receipt     *)
(* (GetTransactionStatus: confirmed or failed) exists only once it is      *)
(* mined.                                                                  *)
(***************************************************************************)
ExecuteTx(i) ==
  /\ i \in 1..Len(txLog)
  /\ txLog[i].status = "pending"
  /\ LET tx == txLog[i]
         ok == CASE tx.kind = "recordUpload" ->
                      recordUploadRequires(fileRecords, paused, tx.cid, UploadedFile[tx.cid].size)
                 [] tx.kind = "claimUploadReward" ->
                      claimUploadRewardSucceeds(fileRecords, paused, contractBalance, rewardConfig, ServerWallet, tx.cid)
                 [] tx.kind = "grantAccess" ->
                      grantAccessRequires(fileRecords, paused, ServerWallet, tx.cid, tx.grantee)
     IN  /\ txLog' = [txLog EXCEPT ![i].status = IF ok THEN "success" ELSE "reverted"]
         /\ IF ~ok THEN UNCHANGED <<ledgerVars, accessGrants>>
            ELSE CASE tx.kind = "recordUpload" ->
                        /\ recordUploadEffect(ServerWallet, tx.cid, UploadedFile[tx.cid].size, UploadedFile[tx.cid].encrypted)
                        /\ UNCHANGED accessGrants
                   [] tx.kind = "claimUploadReward" ->
                        /\ claimUploadRewardEffect(ServerWallet, tx.cid)
                        /\ UNCHANGED accessGrants
                   [] tx.kind = "grantAccess" ->
                        grantAccessEffect(ServerWallet, tx.cid, tx.grantee, tx.duration, now)
  /\ UNCHANGED <<file_records, access_grants, uploadTask, claimReq, claimResp, jsVars, now, grantTask, grantResp, uploadResp, webhookResp, lastAuth, probe, keyVars>>

(***************************************************************************)
(* The JavaScript backend (scripts/db-utils.js): POST /upload with the     *)
(* automatic claim, POST /rewards/claim, and ContractService behind them.  *)
(* Every ContractService call waits for the receipt of the transaction it  *)
(* sent (tx.wait()), so a revert is an exception the caller sees.          *)
(***************************************************************************)
\* no POST /upload for this cid
NoUpload == [phase |-> "none", user |-> NoAddr, tx |-> NoTxHash]

\* no response yet
NoJsResponse == [op |-> "none", code |-> 0, tx_hash |-> NoTxHash]

\* the check at the top of ContractService.claimUploadReward: getFileRecord
\* is read and the call throws when rewardClaimed is set
claimPrecheck(rec) == ~rec.rewardClaimed

\* INSERT INTO file_records at the end of POST /upload: the row is stored
\* with status 'confirmed' and the hash of the recordUpload transaction; the
\* insert fails when a row with this cid exists (cid TEXT UNIQUE)
jsInsert(rows, cid, user, txHash) ==
  IF rows[cid].exists THEN rows
  ELSE [rows EXCEPT ![cid] = [exists |-> TRUE, uploader_addr |-> user, status |-> "confirmed", tx_hash |-> txHash]]

\* a faulty variant of jsUploadResponse: a failed automatic claim fails the
\* upload
jsUploadResponseClaimFatal(rows, cid, rewardTxHash) ==
  IF rows[cid].exists \/ rewardTxHash = NoTxHash
  THEN [op |-> "upload", code |-> 500, tx_hash |-> NoTxHash]
  ELSE [op |-> "upload", code |-> 200, tx_hash |-> rewardTxHash]

\* the response of POST /upload: 500 from the outer catch when the insert
\* failed, else success with reward_tx_hash
jsUploadResponse(rows, cid, rewardTxHash) ==
  IF rows[cid].exists THEN [op |-> "upload", code |-> 500, tx_hash |-> NoTxHash]
  ELSE [op |-> "upload", code |-> 200, tx_hash |-> rewardTxHash]

\* POST /upload up to the recordUpload transaction: estimateGas throws when
\* the call would revert (recordFileUpload returns null, the rewards are
\* skipped and the row is stored), else the transaction is sent
JsUpload(user, cid) ==
  /\ \/ jsUpload[cid].phase = "done"
     \/ /\ jsUpload[cid].phase = "none"
        /\ Cardinality({c \in CIDs : jsUpload[c].phase # "none"}) < MaxRecords
  /\ IF recordUploadRequires(fileRecords, paused, cid, UploadedFile[cid].size)
     THEN /\ Len(jsTxLog) < MaxTx
          /\ jsTxLog' = Append(jsTxLog, [kind |-> "recordUpload", cid |-> cid, status |-> "pending"])
          /\ jsUpload' = [jsUpload EXCEPT ![cid] = [phase |-> "recording", user |-> user, tx |-> Len(jsTxLog) + 1]]
          /\ UNCHANGED <<js_records, jsResp>>
     ELSE /\ js_records' = jsInsert(js_records, cid, user, NoTxHash)
          /\ jsResp' = jsUploadResponse(js_records, cid, NoTxHash)
          /\ jsUpload' = [jsUpload EXCEPT ![cid] = [phase |-> "done", user |-> user, tx |-> NoTxHash]]
          /\ UNCHANGED jsTxLog
  /\ UNCHANGED <<jsClaim, ledgerVars, goVars, accessVars, uploadResp, webhookResp, lastAuth, probe, keyVars>>

\* the recordUpload transaction of POST /upload is mined.  On success the
\* automatic claim starts (its check of getFileRecord reads the new record);
\* on a revert recordFileUpload returns null and the row is stored
JsUploadRecorded(cid) ==
  /\ jsUpload[cid].phase = "recording"
  /\ LET up == jsUpload[cid]
         ok == recordUploadRequires(fileRecords, paused, cid, UploadedFile[cid].size)
     IN  /\ jsTxLog' = [jsTxLog EXCEPT ![up.tx].status = IF ok THEN "success" ELSE "reverted"]
         /\ IF ok
            THEN /\ Len(jsClaim) < MaxClaims
                 /\ recordUploadEffect(ServerWallet, cid, UploadedFile[cid].size, UploadedFile[cid].encrypted)
                 /\ jsClaim' = Append(jsClaim, [cid |-> cid, origin |-> "auto", phase |-> "checked", tx |-> NoTxHash])
                 /\ jsUpload' = [jsUpload EXCEPT ![cid].phase = "claiming"]
                 /\ UNCHANGED <<js_records, jsResp>>
            ELSE /\ js_records' = jsInsert(js_records, cid, up.user, NoTxHash)
                 /\ jsResp' = jsUploadResponse(js_records, cid, NoTxHash)
                 /\ jsUpload' = [jsUpload EXCEPT ![cid].phase = "done"]
                 /\ UNCHANGED <<jsClaim, ledgerVars>>
  /\ UNCHANGED <<goVars, accessVars, uploadResp, webhookResp, lastAuth, probe, keyVars>>

\* POST /rewards/claim up to the check inside claimUploadReward, for a
\* request whose signature verifies: 404 without a row of this uploader, 400
\* when the ledger record is already claimed
JsClaimBegin(user, cid) ==
  /\ IF ~(js_records[cid].exists /\ js_records[cid].uploader_addr = user)
     THEN /\ jsResp' = [op |-> "claim", code |-> 404, tx_hash |-> NoTxHash]
          /\ UNCHANGED jsClaim
     ELSE IF ~claimPrecheck(fileRecords[cid])
     THEN /\ jsResp' = [op |-> "claim", code |-> 400, tx_hash |-> NoTxHash]
          /\ UNCHANGED jsClaim
     ELSE /\ Len(jsClaim) < MaxClaims
          /\ jsClaim' = Append(jsClaim, [cid |-> cid, origin |-> "manual", phase |-> "checked", tx |-> NoTxHash])
          /\ UNCHANGED jsResp
  /\ UNCHANGED <<js_records, jsUpload, jsTxLog, ledgerVars, goVars, accessVars, uploadResp, webhookResp, lastAuth, probe, keyVars>>

\* a claimUploadReward call returns to its caller with the hash of its
\* transaction, or throws (txHash = NoTxHash).  The automatic claim's error
\* is caught and logged and POST /upload goes on to store the row; POST
\* /rewards/claim answers 400 with the error
jsClaimReturns(i, txHash) ==
  LET at == jsClaim[i]
  IN  /\ jsClaim' = RemoveAt(jsClaim, i)
      /\ IF at.origin = "auto"
         THEN /\ js_records' = jsInsert(js_records, at.cid, jsUpload[at.cid].user, jsUpload[at.cid].tx)
              /\ jsResp' = jsUploadResponse(js_records, at.cid, txHash)
              /\ jsUpload' = [jsUpload EXCEPT ![at.cid].phase = "done"]
         ELSE /\ jsResp' = [op |-> "claim", code |-> IF txHash = NoTxHash THEN 400 ELSE 200, tx_hash |-> txHash]
              /\ UNCHANGED <<js_records, jsUpload>>

\* claimUploadReward after its check: estimateGas throws when the call would
\* revert now, else the transaction is sent
JsClaimSend(i) ==
  /\ i \in 1..Len(jsClaim)
  /\ jsClaim[i].phase = "checked"
  /\ IF claimUploadRewardSucceeds(fileRecords, paused, contractBalance, rewardConfig, ServerWallet, jsClaim[i].cid)
     THEN /\ Len(jsTxLog) < MaxTx
          /\ jsTxLog' = Append(jsTxLog, [kind |-> "claimUploadReward", cid |-> jsClaim[i].cid, status |-> "pending"])
          /\ jsClaim' = [jsClaim EXCEPT ![i].phase = "sent", ![i].tx = Len(jsTxLog) + 1]
          /\ UNCHANGED <<js_records, jsUpload, jsResp>>
     ELSE /\ jsClaimReturns(i, NoTxHash)
          /\ UNCHANGED jsTxLog
  /\ UNCHANGED <<ledgerVars, goVars, accessVars, uploadResp, webhookResp, lastAuth, probe, keyVars>>

\* the transaction of a claimUploadReward call is mined and tx.wait()
\* returns the receipt, or throws when the transaction reverted
JsClaimMined(i) ==
  /\ i \in 1..Len(jsClaim)
  /\ jsClaim[i].phase = "sent"
  /\ LET at == jsClaim[i]
         ok == claimUploadRewardSucceeds(fileRecords, paused, contractBalance, rewardConfig, ServerWallet, at.cid)
     IN  /\ jsTxLog' = [jsTxLog EXCEPT ![at.tx].status = IF ok THEN "success" ELSE "reverted"]
         /\ IF ok THEN claimUploadRewardEffect(ServerWallet, at.cid) ELSE UNCHANGED ledgerVars
         /\ jsClaimReturns(i, IF ok THEN at.tx ELSE NoTxHash)
  /\ UNCHANGED <<goVars, accessVars, uploadResp, webhookResp, lastAuth, probe, keyVars>>

(***************************************************************************)
(* Initial state: the contract deployed and configured, the tables empty,  *)
(* no request in flight.                                                   *)
(***************************************************************************)
InitSystem ==
  /\ fileRecords = [c \in CIDs |-> EmptyFileRecord]
  /\ contractBalance = 0
  /\ paused = FALSE
  /\ rewardConfig = [base |-> 2, mult |-> 1, bonus |-> 1]
  /\ rewardClaimedLog = [c \in CIDs |-> 0]
  /\ file_records = [c \in CIDs |-> NoRecord]
  /\ access_grants = <<>>
  /\ uploadTask = [c \in CIDs |-> "none"]
  /\ claimReq = <<>>
  /\ claimResp = NoResponse
  /\ txLog = <<>>
  /\ js_records = [c \in CIDs |-> NoRecord]
  /\ jsUpload = [c \in CIDs |-> NoUpload]
  /\ jsClaim = <<>>
  /\ jsTxLog = <<>>
  /\ jsResp = NoJsResponse
  /\ accessGrants = [c \in CIDs |-> [a \in Addrs |-> EmptyAccessGrant]]
  /\ now = 0
  /\ grantTask = <<>>
  /\ grantResp = NoGrantResponse
  /\ uploadResp = NoUploadResponse
  /\ webhookResp = NoWebhookResponse
  /\ lastAuth = "none"
  /\ encryption_keys = [u \in Users |-> NoKey]
  /\ keyCalls = <<>>
  /\ storage = [c \in CIDs |-> <<>>]
  /\ retrieveResp = NoRetrieveResponse

Init ==
  /\ InitSystem
  /\ probe = NoProbe

(***************************************************************************)
(* The ledger program on its own, called by arbitrary accounts.            *)
(***************************************************************************)
NextLedger ==
  \/ \E s \in Addrs, c \in CIDs, sz \in FileSizes, e \in BOOLEAN : RecordUpload(s, c, sz, e)
  \/ \E s \in Addrs, c \in CIDs : ClaimUploadReward(s, c)
  \/ \E s \in Addrs, cs \in SeqsUpTo(CIDs, MaxBatch) : BatchClaimRewards(s, cs)
  \/ Receive
  \/ Withdraw
  \/ Pause
  \/ Unpause
  \/ \E cfg \in RewardConfigs : UpdateRewardConfig(cfg)

SpecLedger == Init /\ [][NextLedger]_vars

(***************************************************************************)
(* The Go backend with the ledger: users upload and claim, authenticated   *)
(* events arrive in any order, the ledger mines the backend's              *)
(* transactions, and the contract is funded and paused by its owner.       *)
(***************************************************************************)
Next ==
  \/ \E u \in Users, c \in CIDs, stored \in BOOLEAN : Upload(u, Sign(u, uploadMessage(c)), c, stored)
  \/ \E c \in CIDs, sent \in BOOLEAN : UploadTaskDone(c, sent)
  \/ \E u \in Users, c \in CIDs : ClaimBegin(u, Sign(u, claimMessage(c)), c)
  \/ \E i \in 1..MaxClaims, sent \in BOOLEAN : ClaimFinish(i, sent)
  \/ \E e \in FileEvents : HandleWebhook(e, Mac(secretKey, e), e)

Spec == Init /\ [][Next]_vars

(***************************************************************************)
(* Reconciliation: uploads and every event HandleWebhook dispatches.       *)
(***************************************************************************)
NextReconcile ==
  \/ \E u \in Users, c \in CIDs, stored \in BOOLEAN : Upload(u, Sign(u, uploadMessage(c)), c, stored)
  \/ \E c \in CIDs, sent \in BOOLEAN : UploadTaskDone(c, sent)
  \/ \E e \in WebhookEvents : HandleWebhook(e, Mac(secretKey, e), e)

SpecReconcile == Init /\ [][NextReconcile]_vars

(***************************************************************************)
(* The Authentication Gate: upload, claim, grant and revoke requests that  *)
(* carry any signature, with ledger calls that are accepted.               *)
(***************************************************************************)
NextGate ==
  \/ \E u \in Users, c \in CIDs, stored \in BOOLEAN :
        \E sig \in Offered(u, c, uploadMessage(c)) : Upload(u, sig, c, stored)
  \/ \E c \in CIDs : UploadTaskDone(c, TRUE)
  \/ \E u \in Users, c \in CIDs :
        \E sig \in Offered(u, c, claimMessage(c)) : ClaimBegin(u, sig, c)
  \/ \E i \in 1..MaxClaims : ClaimFinish(i, TRUE)
  \/ \E u \in Users, c \in CIDs, g \in Users :
        \E sig \in Offered(u, c, grantMessage(c, g)) : GrantAccess(u, sig, c, g, 0)
  \/ \E u \in Users, c \in CIDs, g \in Users :
        \E sig \in Offered(u, c, revokeMessage(c, g)) : RevokeAccess(u, sig, c, g)

SpecGate == Init /\ [][NextGate]_vars

(***************************************************************************)
(* Event deliveries on both webhook routes, with any X-Signature-256       *)
(* header and with or without a "rawBody" value in the request context,    *)
(* while users upload.                                                     *)
(***************************************************************************)
\* the events delivered: every file event, and the access events about
\* grants of alice to bob
DeliveredEvents ==
  FileEvents
  \cup [type : {"AccessGranted"}, cid : CIDs, granter : {"alice"}, grantee : {"bob"}, expires_at : {10}]
  \cup [type : {"AccessRevoked"}, cid : CIDs, grantee : {"bob"}]

NextWebhook ==
  \/ \E u \in Users, c \in CIDs : Upload(u, Sign(u, uploadMessage(c)), c, TRUE)
  \/ \E e \in DeliveredEvents : \E t \in Tags(e), b \in {NoBody, e} : HandleWebhook(e, t, b)
  \/ \E e \in BlockchainEvents : \E t \in Tags(e) : HandleBlockchainEvent(e, t)

SpecWebhook == Init /\ [][NextWebhook]_vars

(***************************************************************************)
(* Encryption of a payload under a user's key.  Bytes are kept to two      *)
(* values; the lengths of the iv and of the tag are the code's.  The cipher*)
(* is a counter-mode cipher: byte i of the output is byte i of the input   *)
(* combined with byte i of a key stream, and the tag authenticates the key *)
(* and the ciphertext.                                                     *)
(***************************************************************************)
ByteValues == {0, 1}

\* crypto.randomBytes(16)
IvLength == 16
\* the length of cipher.getAuthTag()
TagLength == 16
\* the nonce of the Go helper, 96 bits
NonceSize == 12

\* the payloads encrypted: every byte sequence up to MaxPayload bytes
Payloads == UNION {[1..n -> ByteValues] : n \in 0..MaxPayload}

\* the values randomBytes returns for a buffer of n bytes
randomBytes(n) == {[j \in 1..n |-> 0], [j \in 1..n |-> j % 2]}

\* Buffer.slice(a, b): the bytes a..b-1, counted from 0, clipped to the buffer
slice(buf, a, b) ==
  IF a >= Len(buf) THEN <<>>
  ELSE SubSeq(buf, a + 1, IF b < Len(buf) THEN b ELSE Len(buf))

RECURSIVE byteSum(_)
byteSum(buf) == IF buf = <<>> THEN 0 ELSE Head(buf) + byteSum(Tail(buf))

\* byte i of the key stream of a key, the counter starting at start
keystream(key, start, i) == (IF key = "k1" THEN 0 ELSE 1 + i) + start

\* cipher.update + cipher.final: the counter-mode transform, its own inverse
gcmCrypt(key, start, buf) ==
  [i \in 1..Len(buf) |-> (buf[i] + keystream(key, start, i)) % 2]

\* cipher.getAuthTag(): depends on the key and on every ciphertext byte
gcmTag(key, ciphertext) ==
  [j \in 1..TagLength |->
     (byteSum(ciphertext) + Len(ciphertext) + (IF key = "k1" THEN 0 ELSE 1) + j) % 2]

DecryptionError == [ok |-> FALSE, data |-> <<>>]

\* EncryptionService.encrypt: createCipher derives the key and the counter
\* from the key argument alone; the random iv is only put in front
encrypt(data, key, iv) ==
  LET encrypted == gcmCrypt(key, 0, data)
      authTag == gcmTag(key, encrypted)
  IN  iv \o authTag \o encrypted

\* a faulty variant of decrypt: the blob split as nonce(12) / tag / rest
decryptShortIv(encryptedData, key) ==
  LET authTag == slice(encryptedData, NonceSize, NonceSize + TagLength)
      encrypted == slice(encryptedData, NonceSize + TagLength, Len(encryptedData))
  IN  IF authTag # gcmTag(key, encrypted) THEN DecryptionError
      ELSE [ok |-> TRUE, data |-> gcmCrypt(key, 0, encrypted)]

\* EncryptionService.decrypt: split at 16 and 32; decipher.final throws when
\* the tag does not authenticate the ciphertext under the key
decrypt(encryptedData, key) ==
  LET authTag == slice(encryptedData, IvLength, IvLength + TagLength)
      encrypted == slice(encryptedData, IvLength + TagLength, Len(encryptedData))
  IN  IF authTag # gcmTag(key, encrypted) THEN DecryptionError
      ELSE [ok |-> TRUE, data |-> gcmCrypt(key, 0, encrypted)]

\* utils.EncryptAESGCM: nonce || authTag || ciphertext, the counter started
\* from the nonce
EncryptAESGCM(data, key, nonce) ==
  LET ciphertext == gcmCrypt(key, nonce[2], data)
  IN  nonce \o gcmTag(key, ciphertext) \o ciphertext

\* utils.DecryptAESGCM: split by the same offsets, verify the tag, decrypt
DecryptAESGCM(blob, key) ==
  LET nonce == slice(blob, 0, NonceSize)
      authTag == slice(blob, NonceSize, NonceSize + TagLength)
      ciphertext == slice(blob, NonceSize + TagLength, Len(blob))
  IN  IF Len(nonce) < NonceSize \/ authTag # gcmTag(key, ciphertext)
      THEN DecryptionError
      ELSE [ok |-> TRUE, data |-> gcmCrypt(key, nonce[2], ciphertext)]

Backends == {"js", "go"}

\* a payload encrypted by one backend under one key
InitCrypto ==
  /\ InitSystem
  /\ \E backend \in Backends, data \in Payloads, key \in Keys :
       \E iv \in randomBytes(IF backend = "js" THEN IvLength ELSE NonceSize) :
          probe = [fn |-> "encrypt", backend |-> backend, data |-> data, key |-> key,
                   blob |-> IF backend = "js" THEN encrypt(data, key, iv)
                            ELSE EncryptAESGCM(data, key, iv)]

\* the blob decrypted by the same backend under a key
Decrypt(key) ==
  /\ probe.fn = "encrypt"
  /\ probe' = [fn |-> "decrypt", backend |-> probe.backend, data |-> probe.data,
               key |-> probe.key, blob |-> probe.blob, with |-> key,
               result |-> IF probe.backend = "js" THEN decrypt(probe.blob, key)
                          ELSE DecryptAESGCM(probe.blob, key)]
  /\ UNCHANGED <<ledgerVars, goVars, jsVars, accessVars, uploadResp, webhookResp, lastAuth, keyVars>>

NextCrypto == \E key \in Keys : Decrypt(key)

SpecCrypto == InitCrypto /\ [][NextCrypto]_vars

(***************************************************************************)
(* The Go backend: Upload with its encryption and storage steps, and       *)
(* Retrieve.  The requests carry valid signatures and run one at a time.   *)
(***************************************************************************)
\* getUserEncryptionKey run on its own: the stored key of the user, or the
\* newly generated key, which is stored
getUserEncryptionKey(table, user, generated) ==
  IF table[user] # NoKey THEN table[user] ELSE generated

\* Upload: the file is encrypted under the key of req.UserAddress when
\* should_encrypt is set, and the storage network keeps the bytes under cid
UploadFile(user, cid, stored, generated, nonce) ==
  /\ uploadRequest(user, Sign(user, uploadMessage(cid)), cid, stored)
  /\ LET key == getUserEncryptionKey(encryption_keys, user, generated)
         fileToUpload == IF UploadedFile[cid].encrypted
                         THEN EncryptAESGCM(FileBytes[cid], key, nonce)
                         ELSE FileBytes[cid]
     IN  /\ encryption_keys' = IF UploadedFile[cid].encrypted
                               THEN [encryption_keys EXCEPT ![user] = key]
                               ELSE encryption_keys
         /\ storage' = IF stored /\ storage[cid] = <<>>
                       THEN [storage EXCEPT ![cid] = fileToUpload]
                       ELSE storage
  /\ UNCHANGED <<keyCalls, retrieveResp>>

\* Retrieve: 404 without a row, 403 without access, 500 when the storage has
\* no bytes; an encrypted file is decrypted under the key of req.UserAddress
\* (500 when that fails)
Retrieve(user, cid, generated) ==
  /\ LET key == getUserEncryptionKey(encryption_keys, user, generated)
         fileData == storage[cid]
         decrypts == /\ file_records[cid].exists
                     /\ hasFileAccess(db, now, cid, user)
                     /\ fileData # <<>>
                     /\ UploadedFile[cid].encrypted
         decrypted == DecryptAESGCM(fileData, key)
         answer(code, file) == [user |-> user, cid |-> cid, code |-> code, file |-> file]
     IN  /\ retrieveResp' =
               IF ~file_records[cid].exists THEN answer(404, <<>>)
               ELSE IF ~hasFileAccess(db, now, cid, user) THEN answer(403, <<>>)
               ELSE IF fileData = <<>> THEN answer(500, <<>>)
               ELSE IF ~UploadedFile[cid].encrypted THEN answer(200, fileData)
               ELSE IF decrypted.ok THEN answer(200, decrypted.data)
               ELSE answer(500, <<>>)
         /\ encryption_keys' = IF decrypts THEN [encryption_keys EXCEPT ![user] = key]
                               ELSE encryption_keys
  /\ lastAuth' = "authentic"
  /\ UNCHANGED <<keyCalls, storage, ledgerVars, goVars, jsVars, accessVars, uploadResp, webhookResp, probe>>

NextRetrieve ==
  \/ \E u \in Users, c \in CIDs, stored \in BOOLEAN, k \in Keys :
        \E nonce \in randomBytes(NonceSize) : UploadFile(u, c, stored, k, nonce)
  \/ \E u \in Users, c \in CIDs, g \in Users :
        GrantAccess(u, Sign(u, grantMessage(c, g)), c, g, 0)
  \/ \E u \in Users, c \in CIDs, k \in Keys : Retrieve(u, c, k)

SpecRetrieve == Init /\ [][NextRetrieve]_vars

(***************************************************************************)
(* calculateReward on its own, in unsigned words of WordBits bits.  The    *)
(* compiler (pragma ^0.8.19) checks every + and *: a result above the      *)
(* largest word reverts the call with a panic.                             *)
(***************************************************************************)
\* type(uint256).max, in words of WordBits bits
MaxUint == 2 ^ WordBits - 1

\* the constants and the sizes calculateReward is applied to
ProbeConfigs == [base : {0, 10, MaxUint - 95}, mult : {0, 1, 1000, 2000}, bonus : {0, 5, 100}]
ProbeSizes == {0, 1023, 1024, 2048, 3072, MaxUint}

\* a faulty variant of rewardOverflows: arithmetic that is not checked
rewardNeverOverflows(cfg, fileSize, isEncrypted) == FALSE

\* whether one of the checked operations of calculateReward overflows
rewardOverflows(cfg, fileSize, isEncrypted) ==
  LET sizeReward == (fileSize \div 1024) * cfg.mult
      totalReward == cfg.base + sizeReward
  IN  \/ sizeReward > MaxUint
      \/ totalReward > MaxUint
      \/ isEncrypted /\ totalReward + cfg.bonus > MaxUint

\* a call of calculateReward: a panic, or the word it returns
callCalculateReward(cfg, fileSize, isEncrypted) ==
  IF rewardOverflows(cfg, fileSize, isEncrypted)
  THEN [ok |-> FALSE, value |-> 0]
  ELSE [ok |-> TRUE, value |-> calculateReward(cfg, fileSize, isEncrypted) % (MaxUint + 1)]

\* calculateReward called for one size under one configuration
InitReward ==
  /\ InitSystem
  /\ \E cfg \in ProbeConfigs, fileSize \in ProbeSizes, isEncrypted \in BOOLEAN :
        probe = [fn |-> "calculateReward", cfg |-> cfg, isEncrypted |-> isEncrypted,
                 fileSize |-> fileSize,
                 result |-> callCalculateReward(cfg, fileSize, isEncrypted)]

\* calculateReward called again, for a size that is not smaller
CalculateRewardAgain(fileSize) ==
  /\ probe.fn = "calculateReward"
  /\ fileSize >= probe.fileSize
  /\ probe' = [fn |-> "calculateRewardAgain", cfg |-> probe.cfg, isEncrypted |-> probe.isEncrypted,
               fileSize |-> probe.fileSize, result |-> probe.result,
               fileSize2 |-> fileSize,
               result2 |-> callCalculateReward(probe.cfg, fileSize, probe.isEncrypted)]
  /\ UNCHANGED <<ledgerVars, goVars, jsVars, accessVars, uploadResp, webhookResp, lastAuth, keyVars>>

NextReward == \E fileSize \in ProbeSizes : CalculateRewardAgain(fileSize)

SpecReward == InitReward /\ [][NextReward]_vars

(***************************************************************************)
(* Batch claims sent by the uploaders, who read the outcome.               *)
(***************************************************************************)
NextBatch ==
  \/ \E s \in Users, c \in CIDs, sz \in FileSizes, e \in BOOLEAN : RecordUpload(s, c, sz, e)
  \/ \E s \in Users, c \in CIDs : ClaimUploadReward(s, c)
  \/ \E s \in Users, cs \in SeqsUpTo(CIDs, MaxBatch) : SendBatchClaimRewards(s, cs)
  \/ \E s \in Users, c \in CIDs : SendClaimUploadReward(s, c)
  \/ Receive
  \/ Pause
  \/ Unpause

SpecBatch == Init /\ [][NextBatch]_vars

(***************************************************************************)
(* Concurrent calls of getUserEncryptionKey.                               *)
(***************************************************************************)
NextKeys ==
  \/ \E u \in Users, k \in Keys : KeyLookup(u, k)
  \/ \E i \in 1..MaxKeyCalls : KeyStore(i)

SpecKeys == Init /\ [][NextKeys]_vars

(***************************************************************************)
(* The gate on its own: a request of one action type is accepted, and the  *)
(* signature it carried is sent again, by the same address, with a request *)
(* of any action type.                                                     *)
(***************************************************************************)
\* the action types of the gate and the messages each one's handler verifies
GateActions == {"upload", "retrieve", "claim", "grant", "revoke"}

GateMessages(action) ==
  CASE action = "upload" -> {uploadMessage(c) : c \in CIDs}
    [] action = "retrieve" -> {retrieveMessage(c) : c \in CIDs}
    [] action = "claim" -> {claimMessage(c) : c \in CIDs}
    [] action = "grant" -> {grantMessage(c, g) : c \in CIDs, g \in Users}
    [] action = "revoke" -> {revokeMessage(c, g) : c \in CIDs, g \in Users}

\* the gate of an action type applied to a request of an address
gate(signed, action, address, signature, m) ==
  [fn |-> "gate", signed |-> signed, action |-> action, address |-> address,
   signature |-> signature, accepted |-> VerifySignature(address, signature, m)]

\* a user signs the message of a request of one action type and sends it
InitReplay ==
  /\ InitSystem
  /\ \E a \in GateActions, u \in Users :
        \E m \in GateMessages(a) : probe = gate(a, a, u, Sign(u, m), m)

\* the signature is sent again, for the same address, with a request of any
\* action type and any fields
Replay(action, m) ==
  /\ probe' = gate(probe.signed, action, probe.address, probe.signature, m)
  /\ UNCHANGED <<ledgerVars, goVars, jsVars, accessVars, uploadResp, webhookResp, lastAuth, keyVars>>

NextReplay == \E a \in GateActions : \E m \in GateMessages(a) : Replay(a, m)

SpecReplay == InitReplay /\ [][NextReplay]_vars

(***************************************************************************)
(* Uploads whose goroutine is scheduled: once launched, the goroutine of   *)
(* an Upload runs until RecordUpload returns and its update is made, while *)
(* file events may arrive at any time.                                     *)
(***************************************************************************)
NextUploadLive ==
  \/ \E u \in Users, c \in CIDs, stored \in BOOLEAN : Upload(u, Sign(u, uploadMessage(c)), c, stored)
  \/ \E c \in CIDs, sent \in BOOLEAN : UploadTaskDone(c, sent)
  \/ \E e \in FileEvents : HandleWebhook(e, Mac(secretKey, e), e)

SpecUploadLive ==
  /\ Init
  /\ [][NextUploadLive]_vars
  /\ \A c \in CIDs : WF_vars(\E sent \in BOOLEAN : UploadTaskDone(c, sent))

(***************************************************************************)
(* Settlement: the Go backend with the ledger mining its transactions,     *)
(* the contract funded and paused by its owner.                            *)
(***************************************************************************)
NextSettle ==
  \/ \E u \in Users, c \in CIDs, stored \in BOOLEAN : Upload(u, Sign(u, uploadMessage(c)), c, stored)
  \/ \E c \in CIDs, sent \in BOOLEAN : UploadTaskDone(c, sent)
  \/ \E u \in Users, c \in CIDs : ClaimBegin(u, Sign(u, claimMessage(c)), c)
  \/ \E i \in 1..MaxClaims, sent \in BOOLEAN : ClaimFinish(i, sent)
  \/ \E i \in 1..MaxTx : ExecuteTx(i)
  \/ Receive
  \/ Pause
  \/ Unpause

SpecSettle == Init /\ [][NextSettle]_vars

(***************************************************************************)
(* The JavaScript backend with the ledger mining its transactions, the     *)
(* contract funded and paused by its owner.                                *)
(***************************************************************************)
NextJs ==
  \/ \E u \in Users, c \in CIDs : JsUpload(u, c)
  \/ \E c \in CIDs : JsUploadRecorded(c)
  \/ \E u \in Users, c \in CIDs : JsClaimBegin(u, c)
  \/ \E i \in 1..MaxClaims : JsClaimSend(i)
  \/ \E i \in 1..MaxClaims : JsClaimMined(i)
  \/ Receive
  \/ Pause
  \/ Unpause

SpecJs == Init /\ [][NextJs]_vars

(***************************************************************************)
(* Access control: the Go backend's grants and revokes with their ledger   *)
(* mirror, the AccessGranted and AccessRevoked events, and the clock.      *)
(***************************************************************************)
\* the access events of the ledger as an indexer delivers them: the granter
\* of a ledger grant is the account that sent grantAccess
LedgerAccessEvents ==
  [type : {"AccessGranted"}, cid : CIDs, granter : Addrs, grantee : Users, expires_at : ExpiryTimes]
  \cup [type : {"AccessRevoked"}, cid : CIDs, grantee : Users]

NextAccess ==
  \/ \E u \in Users, c \in CIDs : Upload(u, Sign(u, uploadMessage(c)), c, TRUE)
  \/ \E u \in Users, c \in CIDs, g \in Users, d \in Durations : GrantAccess(u, Sign(u, grantMessage(c, g)), c, g, d)
  \/ \E u \in Users, c \in CIDs, g \in Users : RevokeAccess(u, Sign(u, revokeMessage(c, g)), c, g)
  \/ \E e \in LedgerAccessEvents : HandleWebhook(e, Mac(secretKey, e), e)
  \/ Tick

SpecAccess == Init /\ [][NextAccess]_vars

(***************************************************************************)
(* The ledger mirror of grants: uploads recorded on the ledger, grants     *)
(* whose goroutine sends grantAccess, the ledger mining the transactions,  *)
(* and local revokes.                                                      *)
(***************************************************************************)
NextMirror ==
  \/ \E u \in Users, c \in CIDs : Upload(u, Sign(u, uploadMessage(c)), c, TRUE)
  \/ \E c \in CIDs : UploadTaskDone(c, TRUE)
  \/ \E u \in Users, c \in CIDs, g \in Users, d \in Durations : GrantAccess(u, Sign(u, grantMessage(c, g)), c, g, d)
  \/ \E i \in 1..MaxGrants, sent \in BOOLEAN : GrantMirrorDone(i, sent)
  \/ \E u \in Users, c \in CIDs, g \in Users : RevokeAccess(u, Sign(u, revokeMessage(c, g)), c, g)
  \/ \E i \in 1..MaxTx : ExecuteTx(i)

SpecMirror == Init /\ [][NextMirror]_vars

\* C1: on the ledger, each content identifier is paid at most once (at most
\* one RewardClaimed event is ever emitted for it, and only with the claimed
\* flag set), and a claimed flag that is true stays true.
C1_ClaimedAtMostOnce ==
  [][\A c \in CIDs :
        /\ rewardClaimedLog'[c] <= 1
        /\ (rewardClaimedLog'[c] = 1 => fileRecords'[c].rewardClaimed)
        /\ (fileRecords[c].rewardClaimed => fileRecords'[c].rewardClaimed)
        /\ (rewardClaimedLog'[c] # rewardClaimedLog[c] => ~fileRecords[c].rewardClaimed)]_vars

\* witness of C1: an identifier was paid and its flag is set
C1_Witness ==
  \E c \in CIDs : rewardClaimedLog[c] = 1 /\ fileRecords[c].rewardClaimed

(***************************************************************************)
(* Reconciliation and the Content Record state machine (Go backend).       *)
(***************************************************************************)
\* a step of HandleWebhook: no task, request or transaction moves
WebhookStep == UNCHANGED <<uploadTask, claimReq, claimResp, txLog>>

AllowedTransitions == {<<"pending", "confirmed">>, <<"pending", "failed">>, <<"confirmed", "rewarded">>}

ClaimTxs(c) == {i \in 1..Len(txLog) : txLog[i].kind = "claimUploadReward" /\ txLog[i].cid = c}

\* C7: a claim request sends a ledger claim transaction only when the
\* claimant is the record's uploader and the status it read is Confirmed;
\* every other request is rejected (404, 409, 400) and sends nothing.
C7_ClaimOnlyWhenConfirmed ==
  [][/\ \A i \in 1..Len(claimReq') :
           /\ claimReq'[i].status = "confirmed"
           /\ file_records'[claimReq'[i].cid].exists
           /\ file_records'[claimReq'[i].cid].uploader_addr = claimReq'[i].user
     /\ \A c \in CIDs : ClaimTxs(c)' # ClaimTxs(c) =>
           /\ Cardinality(ClaimTxs(c)') = Cardinality(ClaimTxs(c)) + 1
           /\ \E i \in 1..Len(claimReq) :
                 /\ claimReq[i].cid = c
                 /\ claimReq[i].status = "confirmed"
                 /\ claimReq' = RemoveAt(claimReq, i)
     /\ (claimResp' # claimResp /\ claimResp'.code \in {400, 404, 409}) =>
           /\ txLog' = txLog
           /\ claimReq' = claimReq
           /\ file_records' = file_records]_vars

\* witness of C7: one claim was sent for a record, the record is Rewarded and
\* a second claim on it was rejected with 409 without a second transaction
C7_Witness ==
  \E c \in CIDs :
    /\ file_records[c].status = "rewarded"
    /\ Cardinality(ClaimTxs(c)) = 1
    /\ claimResp.code = 409
    /\ claimReq = <<>>

\* C8: when a claim's ledger transaction succeeds, the record is Rewarded and
\* the claim's transaction hash is stored on the record.
C8_ClaimHashRecorded ==
  (claimResp.code = 200 /\ txLog[claimResp.tx_hash].status = "success") =>
     /\ file_records[txLog[claimResp.tx_hash].cid].status = "rewarded"
     /\ file_records[txLog[claimResp.tx_hash].cid].tx_hash = claimResp.tx_hash

\* C9: when the ledger rejects a claim, the claim operation reported an error
\* and the record's status is still Confirmed.
C9_RejectedClaimLeavesRecord ==
  (claimResp.tx_hash # NoTxHash /\ txLog[claimResp.tx_hash].status = "reverted") =>
     /\ claimResp.code # 200
     /\ file_records[txLog[claimResp.tx_hash].cid].status = "confirmed"

(***************************************************************************)
(* Concurrent claim attempts for one identifier.                           *)
(***************************************************************************)
\* the claim transactions the JavaScript backend sent for an identifier
JsClaimTxs(c) == {i \in 1..Len(jsTxLog) : jsTxLog[i].kind = "claimUploadReward" /\ jsTxLog[i].cid = c}

\* the claim transactions for an identifier with a given receipt status
ClaimTxsWith(c, st) == {i \in ClaimTxs(c) : txLog[i].status = st}

JsClaimTxsWith(c, st) == {i \in JsClaimTxs(c) : jsTxLog[i].status = st}

GrantRows(c, g) == {i \in 1..Len(access_grants) : access_grants[i].cid = c /\ access_grants[i].grantee_addr = g}

\* C11: for every existing Content Record the uploader has access, whatever
\* grants exist, were revoked or have expired and whatever events were applied.
C11_UploaderAlwaysHasAccess ==
  \A c \in CIDs : file_records[c].exists => hasFileAccess(db, now, c, file_records[c].uploader_addr)

\* witness of C11: a record whose uploader was also made a grantee, with every
\* grant row of the uploader revoked or expired
C11_Witness ==
  \E c \in CIDs :
    /\ file_records[c].exists
    /\ GrantRows(c, file_records[c].uploader_addr) # {}
    /\ \A i \in GrantRows(c, file_records[c].uploader_addr) :
          ~access_grants[i].is_active \/ access_grants[i].expires_at <= now

\* C12: hasAccess(cid, address) is true exactly when the address is the
\* uploader, or has an active unexpired local grant, or the ledger reports
\* access for it (a grant that exists only on the ledger gives access).
C12_AccessIncludesLedger ==
  \A c \in CIDs, a \in Users :
    file_records[c].exists =>
      (hasFileAccess(db, now, c, a) <=>
         \/ file_records[c].uploader_addr = a
         \/ \E i \in GrantRows(c, a) : access_grants[i].is_active /\ access_grants[i].expires_at > now
         \/ hasAccess(fileRecords, accessGrants, now, c, a))

\* C13: a grant made at time t0 with duration d > 0 expires at t0 + d; a
\* non-uploader whose only row for the identifier is that grant, not revoked,
\* has access exactly while the clock is before the expiry.
C13_GrantLastsItsDuration ==
  [][/\ (Len(grantTask') = Len(grantTask) + 1) =>
           LET task == grantTask'[Len(grantTask')]
               row == access_grants'[task.id]
           IN  /\ row.is_active
               /\ task.duration > 0 => row.expires_at = now + task.duration
               /\ task.duration > 0 => \A t \in now..(now + task.duration - 1) : hasFileAccess(db', t, task.cid, task.grantee)
     /\ \A c \in CIDs, g \in Users :
           (/\ file_records'[c].exists
            /\ file_records'[c].uploader_addr # g
            /\ Cardinality(GrantRows(c, g)') = 1
            /\ \A i \in GrantRows(c, g)' : access_grants'[i].is_active)
           => (hasFileAccess(db', now', c, g) <=> \A i \in GrantRows(c, g)' : now' < access_grants'[i].expires_at)]_vars

\* witness of C13: the only grant of a non-uploader, made by GrantAccess with
\* a positive duration and not revoked, has expired and gives no access
C13_Witness ==
  \E c \in CIDs, g \in Users :
    /\ file_records[c].exists
    /\ file_records[c].uploader_addr # g
    /\ Cardinality(GrantRows(c, g)) = 1
    /\ \A i \in GrantRows(c, g) :
          /\ access_grants[i].is_active
          /\ access_grants[i].granter_addr = file_records[c].uploader_addr
          /\ access_grants[i].expires_at <= now
          /\ \E k \in 1..Len(grantTask) : grantTask[k].id = i /\ grantTask[k].duration > 0
    /\ ~hasFileAccess(db, now, c, g)

RevertedGrantTxs == {i \in 1..Len(txLog) : txLog[i].kind = "grantAccess" /\ txLog[i].status = "reverted"}

\* C16: the grant request succeeds when its row is created, and a failure of
\* its ledger mirror (GrantAccessOnChain returns an error, or its transaction
\* reverts) leaves every grant row present and as active as it was.
C16_MirrorFailureKeepsGrant ==
  [][/\ (Len(grantTask') = Len(grantTask) + 1) =>
           /\ grantResp' = [op |-> "grant", code |-> 200]
           /\ access_grants'[grantTask'[Len(grantTask')].id].is_active
     /\ (Len(grantTask') = Len(grantTask) - 1 /\ txLog' = txLog) => access_grants' = access_grants
     /\ (RevertedGrantTxs' # RevertedGrantTxs) => access_grants' = access_grants]_vars

\* witness of C16: a grant whose mirror returned an error and a grant whose
\* mirror transaction reverted, both rows still active
C16_Witness ==
  /\ Len(access_grants) = 2
  /\ \A i \in 1..Len(access_grants) : access_grants[i].is_active
  /\ grantTask = <<>>
  /\ Cardinality({i \in 1..Len(txLog) : txLog[i].kind = "grantAccess"}) = 1
  /\ Cardinality(RevertedGrantTxs) = 1

\* C17: a Content Record, once inserted, is never replaced; an upload whose
\* identifier already has a record fails with a database error, changes no
\* record and launches no ledger-record goroutine.
C17_OneRecordPerCid ==
  [][/\ \A c \in CIDs :
           /\ file_records[c].exists =>
                 /\ file_records'[c].exists
                 /\ file_records'[c].uploader_addr = file_records[c].uploader_addr
           /\ (uploadTask'[c] = "running" /\ uploadTask[c] # "running") =>
                 /\ ~file_records[c].exists
                 /\ file_records'[c].exists
     /\ (uploadResp' # uploadResp /\ uploadResp'.code = 500) =>
           /\ file_records' = file_records
           /\ uploadTask' = uploadTask
           /\ txLog' = txLog]_vars

\* witness of C17: a second upload of a recorded identifier failed at the insert
C17_Witness ==
  /\ uploadResp.error = "Database error"
  /\ \E c \in CIDs : file_records[c].exists

\* C18: there is at most one Access Grant row per (content identifier,
\* grantee) pair.
C18_OneRowPerGrantee ==
  \A c \in CIDs, g \in Users : Cardinality(GrantRows(c, g)) <= 1

\* C19: every newly created Content Record, in either backend, has status
\* Pending and no ledger transaction hash; an upload whose storage write
\* failed creates no record and makes no ledger call.
C19_NewRecordIsPending ==
  [][/\ \A c \in CIDs :
           /\ (~file_records[c].exists /\ file_records'[c].exists) =>
                 /\ file_records'[c].status = "pending"
                 /\ file_records'[c].tx_hash = NoTxHash
           /\ (~js_records[c].exists /\ js_records'[c].exists) =>
                 /\ js_records'[c].status = "pending"
                 /\ js_records'[c].tx_hash = NoTxHash
     /\ (uploadResp' # uploadResp /\ uploadResp'.error = "Storage upload failed") =>
           /\ file_records' = file_records
           /\ uploadTask' = uploadTask
           /\ txLog' = txLog]_vars

\* C20: the step of an upload request that starts the ledger-record call is
\* the step that answers the client, in either backend: the response does
\* not wait for the call to return.
C20_ResponseNotGatedOnLedger ==
  [][\A c \in CIDs :
        /\ (uploadTask'[c] = "running" /\ uploadTask[c] # "running") =>
              /\ uploadResp'.code = 200
              /\ uploadResp'.status = "pending"
        /\ (jsUpload'[c].phase = "recording" /\ jsUpload[c].phase # "recording") =>
              /\ jsResp'.op = "upload"
              /\ jsResp'.code = 200]_vars

\* C21: a Content Record that is Pending eventually is not Pending, given that
\* the goroutine of its Upload returns; when the goroutine ends the record is
\* Confirmed with the hash of the transaction RecordUpload sent, or Failed
\* when RecordUpload returned an error.
C21_PendingEventuallyLeaves ==
  /\ \A c \in CIDs :
        (file_records[c].exists /\ file_records[c].status = "pending")
           ~> (file_records[c].status # "pending")
  /\ [][\A c \in CIDs :
           (uploadTask[c] = "running" /\ uploadTask'[c] = "done") =>
              IF Len(txLog') = Len(txLog) + 1
              THEN /\ file_records'[c].status = "confirmed"
                   /\ file_records'[c].tx_hash = Len(txLog')
                   /\ txLog'[Len(txLog')].cid = c
              ELSE file_records'[c].status = "failed"]_vars

\* witness of C21: one upload's goroutine ended with an error and the record
\* is Failed, with no transaction sent
C21_Witness ==
  \E c \in CIDs :
    /\ uploadTask[c] = "done"
    /\ file_records[c].status = "failed"
    /\ file_records[c].tx_hash = NoTxHash
    /\ txLog = <<>>

\* the Access Grant rows of a content identifier, in order
RowsOf(rows, c) == SelectSeq(rows, LAMBDA g : g.cid = c)

C23_UntaggedEventIsRejected ==
  [][\A e \in WebhookEvents \cup BlockchainEvents :
        \A t \in Tags(e) \ {Mac(secretKey, e)} :
           /\ (\E b \in {NoBody, e} : HandleWebhook(e, t, b)) =>
                 /\ webhookResp'.code = 401
                 /\ UNCHANGED <<file_records, access_grants>>
           /\ HandleBlockchainEvent(e, t) =>
                 /\ webhookResp'.code = 401
                 /\ UNCHANGED <<file_records, access_grants>>]_vars

\* what a request can change past the gate: rows, goroutines, requests on
\* their way to the ledger, transactions
CoreEffects == <<file_records, access_grants, uploadTask, claimReq, txLog, grantTask, ledgerVars>>

\* a step in which a request is answered or goes on to its ledger call (and
\* not the return of ClaimReward from its ledger call)
RequestStep ==
  \/ uploadResp' # uploadResp
  \/ grantResp' # grantResp
  \/ Len(claimReq') > Len(claimReq)
  \/ (claimResp' # claimResp /\ Len(claimReq') = Len(claimReq))

C25_NoReplayAcrossActions ==
  (probe.fn = "gate" /\ probe.action # probe.signed) => ~probe.accepted

\* C26: no call of getUserEncryptionKey fails, and every call that returned
\* for a user returned the key stored for that user (so all calls for one
\* user return the same key, also when they began before any key was stored).
C26_KeyIsIdempotent ==
  \A i \in 1..Len(keyCalls) :
     /\ keyCalls[i].phase # "failed"
     /\ keyCalls[i].phase = "returned" => keyCalls[i].key = encryption_keys[keyCalls[i].user]

ClaimedInStep == {c \in CIDs : rewardClaimedLog'[c] # rewardClaimedLog[c]}

\* base + floor(size / 1024) * sizeMultiplier + (encryptionBonus if encrypted),
\* for a stored record under the configured constants
SpecifiedReward(cfg, rec) ==
  cfg.base + (rec.fileSize \div 1024) * cfg.mult + (IF rec.isEncrypted THEN cfg.bonus ELSE 0)

RECURSIVE SpecifiedTotal(_, _, _)
SpecifiedTotal(cfg, recs, cids) ==
  IF cids = {} THEN 0
  ELSE LET c == CHOOSE x \in cids : TRUE
       IN  SpecifiedReward(cfg, recs[c]) + SpecifiedTotal(cfg, recs, cids \ {c})

\* C28: a step that claims rewards pays out of the contract exactly
\* base + floor(size / 1024) * sizeMultiplier + (encryptionBonus if encrypted)
\* for each claimed record's stored size and flag, under the constants
\* configured at the time of the claim.
C28_ClaimPaysSpecifiedReward ==
  [][ClaimedInStep # {} =>
        /\ rewardConfig' = rewardConfig
        /\ contractBalance - contractBalance' = SpecifiedTotal(rewardConfig, fileRecords, ClaimedInStep)]_vars

\* a 2048-byte encrypted record claimed under base 2, multiplier 1, bonus 1:
\* 5 of the 6 units the contract held were paid
C28_Witness ==
  \E c \in CIDs :
     /\ fileRecords[c].fileSize = 2048 /\ fileRecords[c].isEncrypted
     /\ fileRecords[c].rewardClaimed /\ rewardClaimedLog[c] = 1
     /\ rewardConfig = [base |-> 2, mult |-> 1, bonus |-> 1]
     /\ contractBalance = MaxFunds - (2 + 2 * 1 + 1)
     /\ \A d \in CIDs \ {c} : ~fileRecords[d].rewardClaimed

\* C29: under fixed constants, two calls of calculateReward for the same size
\* return the same word, a call for a larger size never returns a smaller
\* word, and a returned word is the exact sum (arithmetic that would exceed
\* the word reverts the call instead of wrapping around).
C29_RewardMonotoneNoWrap ==
  probe.fn = "calculateRewardAgain" =>
     /\ probe.fileSize2 = probe.fileSize => probe.result2 = probe.result
     /\ (probe.result.ok /\ probe.result2.ok) => probe.result.value <= probe.result2.value
     /\ probe.result2.ok => probe.result.ok
     /\ probe.result2.ok =>
          probe.result2.value = probe.cfg.base + (probe.fileSize2 \div 1024) * probe.cfg.mult
                                  + (IF probe.isEncrypted THEN probe.cfg.bonus ELSE 0)

\* both calls returned, the second for a larger size and a larger reward, and
\* one more kilobyte would have exceeded the word
C29_Witness ==
  /\ probe.fn = "calculateRewardAgain"
  /\ probe.fileSize < probe.fileSize2
  /\ probe.result.ok /\ probe.result2.ok
  /\ probe.result.value < probe.result2.value
  /\ rewardOverflows(probe.cfg, probe.fileSize2 + 1024, probe.isEncrypted)

\* C30: a batch claim whose list holds only identifiers that are skipped
\* (already claimed, not owned by the sender, or unknown) does not abort.
C30_AllSkippedBatchDoesNotAbort ==
  (/\ probe.fn = "batchClaimRewards"
   /\ probe.cids # <<>>
   /\ probe.selected = {})
     => probe.revert = ""

\* the uploads whose automatic claim returns in this step without a reward
\* transaction
AutoClaimFailsInStep ==
  {c \in CIDs : /\ jsUpload[c].phase = "claiming"
                /\ jsUpload'[c].phase = "done"
                /\ \E i \in 1..Len(jsClaim) :
                      /\ jsClaim[i].cid = c /\ jsClaim[i].origin = "auto"
                      /\ \/ jsClaim[i].phase = "checked"
                         \/ /\ jsClaim[i].phase = "sent"
                            /\ jsTxLog'[jsClaim[i].tx].status = "reverted"}

\* C31: when the automatic claim of an upload fails, the upload goes on: the
\* row of the identifier is stored with status confirmed (not failed, not
\* rewarded), the upload answers success unless a row of this identifier was
\* stored before, and the failed claim leaves the ledger record as it was, so
\* an unclaimed record stays claimable by its uploader.
C31_AutoClaimFailureIsNotFatal ==
  [][\A c \in AutoClaimFailsInStep :
        /\ js_records'[c].exists
        /\ js_records'[c].status = "confirmed"
        /\ ~js_records[c].exists => jsResp' = [op |-> "upload", code |-> 200, tx_hash |-> NoTxHash]
        /\ fileRecords'[c] = fileRecords[c]
        /\ fileExists(fileRecords', c)
        /\ ~fileRecords[c].rewardClaimed => claimRequires(fileRecords'[c], ServerWallet)]_vars

\* a manual claim answered 200 for an identifier whose upload is done and whose
\* record transaction succeeded: its automatic claim had failed, and the only
\* claim transaction of the identifier is the manual one
C31_Witness ==
  \E c \in CIDs :
     /\ jsUpload[c].phase = "done"
     /\ js_records[c].exists /\ js_records[c].status = "confirmed"
     /\ js_records[c].tx_hash # NoTxHash
     /\ jsResp.op = "claim" /\ jsResp.code = 200
     /\ jsTxLog[jsResp.tx_hash].cid = c
     /\ Cardinality({i \in 1..Len(jsTxLog) : jsTxLog[i].kind = "claimUploadReward" /\ jsTxLog[i].cid = c}) = 1
     /\ fileRecords[c].rewardClaimed

\* the distinct identifiers of the list of the batch call of this step that
\* the sender owned and that were unclaimed before the call
OwedInStep ==
  {c \in CIDs : /\ \E i \in 1..Len(probe'.cids) : probe'.cids[i] = c
                /\ fileRecords[c].uploader = probe'.sender
                /\ ~fileRecords[c].rewardClaimed}

\* C32: a batch claim that does not revert takes out of the contract exactly
\* the sum of the rewards of the distinct identifiers of its list that the
\* sender owned and that were unclaimed, marks exactly those claimed, and
\* emits one claim event for each, however often it appears in the list.
C32_BatchPaysEachOnce ==
  [][(probe' # probe /\ probe'.fn = "batchClaimRewards" /\ probe'.revert = "") =>
        /\ OwedInStep # {}
        /\ contractBalance - contractBalance' = SpecifiedTotal(rewardConfig, fileRecords, OwedInStep)
        /\ \A c \in CIDs :
              /\ fileRecords'[c].rewardClaimed = (fileRecords[c].rewardClaimed \/ c \in OwedInStep)
              /\ rewardClaimedLog'[c] = rewardClaimedLog[c] + (IF c \in OwedInStep THEN 1 ELSE 0)]_vars

\* a batch that named one owned identifier twice and went through: the
\* identifier is claimed and has one claim event
C32_Witness ==
  \E c \in CIDs :
     /\ probe.fn = "batchClaimRewards" /\ probe.revert = ""
     /\ probe.cids = <<c, c>>
     /\ fileRecords[c].uploader = probe.sender
     /\ fileRecords[c].rewardClaimed
     /\ rewardClaimedLog[c] = 1

\* C33: a record whose local status is rewarded has the claimed flag set on
\* the ledger for its identifier, in both backends.
C33_RewardedIsClaimedOnLedger ==
  \A c \in CIDs :
     /\ (file_records[c].exists /\ file_records[c].status = "rewarded") => fileRecords[c].rewardClaimed
     /\ (js_records[c].exists /\ js_records[c].status = "rewarded") => fileRecords[c].rewardClaimed

\* C34: a record whose status is confirmed or rewarded has a ledger
\* transaction hash stored, in both backends.
C34_ConfirmedHasTxHash ==
  \A c \in CIDs :
     /\ (file_records[c].exists /\ file_records[c].status \in {"confirmed", "rewarded"})
           => file_records[c].tx_hash # NoTxHash
     /\ (js_records[c].exists /\ js_records[c].status \in {"confirmed", "rewarded"})
           => js_records[c].tx_hash # NoTxHash

\* the generic transaction-status events, for every hash and for none
TxStatusEvents == [type : {"TransactionConfirmed", "TransactionFailed"}, tx_hash : TxHashes]

C36_RetrieveReturnsUploadedBytes ==
  [][retrieveResp' # retrieveResp =>
        /\ encryption_keys' = encryption_keys
        /\ (retrieveResp'.code \notin {404, 403} /\ storage[retrieveResp'.cid] # <<>>)
              => (retrieveResp'.code = 200 /\ retrieveResp'.file = FileBytes[retrieveResp'.cid])]_vars

\* C37: a claimUploadReward or batchClaimRewards call that reverts leaves
\* every ledger entry as it was: no claimed flag is set, no event is emitted
\* and nothing is paid, so an unclaimed reward stays claimable.
C37_RevertedClaimIsAtomic ==
  [][(/\ probe' # probe
      /\ probe'.fn \in {"claimUploadReward", "batchClaimRewards"}
      /\ probe'.revert # "") =>
        /\ UNCHANGED ledgerVars
        /\ \A i \in 1..Len(probe'.cids) :
              fileRecords'[probe'.cids[i]].rewardClaimed = fileRecords[probe'.cids[i]].rewardClaimed]_vars

\* the uploader's claim reverted for lack of funds, after the flag was
\* written in the call, and the flag of the record is still false
C37_Witness ==
  /\ probe.fn = "claimUploadReward"
  /\ probe.revert = "Insufficient contract balance"
  /\ fileRecords[probe.cids[1]].uploader = probe.sender
  /\ ~fileRecords[probe.cids[1]].rewardClaimed
  /\ rewardClaimedLog[probe.cids[1]] = 0

====
